---------------------------- MODULE Spec2Model ----------------------------
(***************************************************************************)
(* BTF_helper: the two archive readers, Btfzip (btf_helper/btfzip.py) and  *)
(* Btfnpz (btf_helper/btfnpz.py, btfnpz-helper/btfnpz.py).                 *)
(*                                                                         *)
(* Text is modelled as sequences of one-character strings, so that         *)
(* str.split, slicing and Decimal(str) are computed as Python computes     *)
(* them.  A Decimal is a record [coef, exp]: the value coef * 10^(-exp).   *)
(* A quantized angle (a Decimal with three fractional digits) is the       *)
(* integer number of thousandths of a degree.  The angles of a packed      *)
(* archive are floats that are whole numbers of thousandths of a degree,   *)
(* again held as that integer; the values used stay at least 1e-8 away     *)
(* from the boundary of numpy.allclose, so float rounding of the           *)
(* comparison does not change its outcome.                                 *)
(***************************************************************************)
EXTENDS Integers, Sequences, FiniteSets, TLC

VARIABLES
    reader,                   \* "none" | "Btfzip" | "Btfnpz": the class constructed
    status,                   \* "new" | "ready" (constructed) | "failed" (__init__ raised)
    error,                    \* the exception __init__ raised, "none" otherwise
    namelist,                 \* ZipFile.namelist(): the entry names of the zip
    file_ext,                 \* Btfzip.__init__ argument
    angle_sep,                \* Btfzip.__init__ argument
    angles_vs_filepath_dict,  \* Btfzip.__angles_vs_filepath_dict
    angles_set,               \* Btfzip.angles_set / Btfnpz.angles_set
    angles_to_image,          \* the bound lookup: "unbound" | "cv2" | "simplejpeg" | "npz"
    stderr,                   \* the diagnostic lines printed to sys.stderr
    angles_list,              \* Btfnpz.angles_list
    image_list,               \* Btfnpz.image_list (images_list in btfnpz-helper)
    last_query,               \* the arguments of the latest angles_to_image call
    last_result,              \* what that call returned or raised
    calls,                    \* number of angles_to_image calls made so far
    archive_path              \* Btfzip.zip_filepath / Btfnpz.npz_filepath

vars == <<reader, status, error, namelist, file_ext, angle_sep,
          angles_vs_filepath_dict, angles_set, angles_to_image, stderr,
          angles_list, image_list, last_query, last_result, calls,
          archive_path>>

-----------------------------------------------------------------------------
(* Bounds of the model *)

\* largest number of entries in a zip archive
MaxEntries == 2

\* largest number of (angles, image) rows in a packed archive
MaxRows == 2

\* largest number of lookups made on one reader
MaxCalls == 2

-----------------------------------------------------------------------------
(* Text helpers: Python str operations on character sequences *)

Abs(x) == IF x < 0 THEN -x ELSE x

RECURSIVE Pow10(_)
Pow10(n) == IF n <= 0 THEN 1 ELSE 10 * Pow10(n - 1)

\* s.endswith(suffix)
EndsWith(s, suffix) ==
    /\ Len(suffix) <= Len(s)
    /\ SubSeq(s, Len(s) - Len(suffix) + 1, Len(s)) = suffix

\* s.split(sep) for a one-character sep: always at least one field
RECURSIVE Split(_, _)
Split(s, sep) ==
    IF \A i \in 1..Len(s) : s[i] # sep
    THEN <<s>>
    ELSE LET k == CHOOSE i \in 1..Len(s) :
                      /\ s[i] = sep
                      /\ \A j \in 1..(i - 1) : s[j] # sep
         IN  <<SubSeq(s, 1, k - 1)>> \o Split(SubSeq(s, k + 1, Len(s)), sep)

\* s.split("/")[-1]
BaseName(s) == LET parts == Split(s, "/") IN parts[Len(parts)]

\* s[:-4]
DropLast4(s) == IF Len(s) <= 4 THEN <<>> ELSE SubSeq(s, 1, Len(s) - 4)

\* s[2:]
DropFirst2(s) == IF Len(s) <= 2 THEN <<>> ELSE SubSeq(s, 3, Len(s))

-----------------------------------------------------------------------------
(* decimal.Decimal *)

DigitChars == {"0", "1", "2", "3", "4", "5", "6", "7", "8", "9"}

DigitValue(c) ==
    CASE c = "0" -> 0 [] c = "1" -> 1 [] c = "2" -> 2 [] c = "3" -> 3
      [] c = "4" -> 4 [] c = "5" -> 5 [] c = "6" -> 6 [] c = "7" -> 7
      [] c = "8" -> 8 [] c = "9" -> 9

\* the leading and trailing whitespace Decimal(str) ignores
RECURSIVE StripSpaces(_)
StripSpaces(s) ==
    IF s = <<>> THEN s
    ELSE IF Head(s) = " " THEN StripSpaces(Tail(s))
    ELSE IF s[Len(s)] = " " THEN StripSpaces(SubSeq(s, 1, Len(s) - 1))
    ELSE s

\* the underscores Decimal(str) ignores
RECURSIVE RemoveUnderscores(_)
RemoveUnderscores(s) ==
    IF s = <<>> THEN s
    ELSE IF Head(s) = "_" THEN RemoveUnderscores(Tail(s))
    ELSE <<Head(s)>> \o RemoveUnderscores(Tail(s))

\* the number written by the digits of s, its decimal point skipped
RECURSIVE DigitsValue(_)
DigitsValue(s) ==
    IF s = <<>> THEN 0
    ELSE IF s[Len(s)] = "." THEN DigitsValue(SubSeq(s, 1, Len(s) - 1))
    ELSE 10 * DigitsValue(SubSeq(s, 1, Len(s) - 1)) + DigitValue(s[Len(s)])

\* number of characters after the decimal point of s, 0 without a point
RECURSIVE FractionDigits(_)
FractionDigits(s) ==
    IF \A i \in 1..Len(s) : s[i] # "." THEN 0
    ELSE IF s[Len(s)] = "." THEN 0
    ELSE 1 + FractionDigits(SubSeq(s, 1, Len(s) - 1))

InvalidDecimal == [ok |-> FALSE, coef |-> 0, exp |-> 0]

\* Decimal(x) for a number x given by its exact decimal expansion
Dec(coef, exp) == [ok |-> TRUE, coef |-> coef, exp |-> exp]

\* the unsigned part of a numeric string: digits with at most one point and
\* at least one digit
DecimalFromUnsigned(u, negative) ==
    IF /\ \A i \in 1..Len(u) : u[i] \in DigitChars \cup {"."}
       /\ Cardinality({i \in 1..Len(u) : u[i] = "."}) <= 1
       /\ \E i \in 1..Len(u) : u[i] \in DigitChars
    THEN Dec(IF negative THEN -DigitsValue(u) ELSE DigitsValue(u), FractionDigits(u))
    ELSE InvalidDecimal

\* a numeric string with its optional sign
DecimalFromSigned(t) ==
    IF t # <<>> /\ Head(t) \in {"-", "+"}
    THEN DecimalFromUnsigned(Tail(t), Head(t) = "-")
    ELSE DecimalFromUnsigned(t, FALSE)

\* Decimal(str) for the plain forms [sign] digits [. digits] and [sign] . digits.
\* Exponent, Infinity and NaN forms need letters that no angle field of the
\* archives below holds; any other text raises decimal.InvalidOperation.
DecimalFromStr(str) == DecimalFromSigned(RemoveUnderscores(StripSpaces(str)))

\* number of fractional digits of Decimal("1E-3")
DECIMAL_PRECISION == 3

\* n / p rounded to a whole number, ROUND_HALF_EVEN, for n >= 0
RoundHalfEven(n, p) ==
    IF 2 * (n % p) > p \/ (2 * (n % p) = p /\ (n \div p) % 2 = 1)
    THEN (n \div p) + 1
    ELSE n \div p

\* d.quantize(Decimal(10) ** -digits) under the default context
\* (ROUND_HALF_EVEN), as a whole number of units of 10^-digits
QuantizeTo(d, digits) ==
    IF d.exp <= digits
    THEN d.coef * Pow10(digits - d.exp)
    ELSE IF d.coef < 0
    THEN -RoundHalfEven(-d.coef, Pow10(d.exp - digits))
    ELSE RoundHalfEven(d.coef, Pow10(d.exp - digits))

\* a mis-set resolution: one digit finer than DECIMAL_PRECISION
Quantize_Finer(d) == QuantizeTo(d, DECIMAL_PRECISION + 1)

\* d.quantize(self.DECIMAL_PRECISION)
Quantize(d) == QuantizeTo(d, DECIMAL_PRECISION)

\* Decimal(k) for a quantized angle k taken from angles_set
DecimalOfKey(k) == Dec(k, DECIMAL_PRECISION)

-----------------------------------------------------------------------------
(* The archives and queries the readers are run on *)

US == "_"

SP == " "

EXR == <<".", "e", "x", "r">>

JPG == <<".", "j", "p", "g">>

JPEG == <<".", "j", "p", "e", "g">>

Tags == <<(<<"t", "l">>), (<<"p", "l">>), (<<"t", "v">>), (<<"p", "v">>)>>

RECURSIVE JoinFields(_, _, _)
JoinFields(vals, i, sep) ==
    IF i > Len(vals) THEN <<>>
    ELSE (IF i > 1 THEN <<sep>> ELSE <<>>) \o Tags[i] \o vals[i]
         \o JoinFields(vals, i + 1, sep)

\* an image entry named as the class docstring requires: dir, then
\* tl<v1><sep>pl<v2><sep>tv<v3><sep>pv<v4>, then the extension.  `encoded`
\* is the angle tuple the name stands for, in thousandths of a degree, and
\* <<>> for a name that encodes none
Entry(dir, vals, sep, ext, encoded) ==
    [name |-> dir \o JoinFields(vals, 1, sep) \o ext,
     sep |-> sep, ext |-> ext, encoded |-> encoded]

V0 == <<"0">>

V10 == <<"1", "0">>

V45 == <<"4", "5">>

V255 == <<"2", "5", "5">>

V10_5 == <<"1", "0", ".", "5">>

V10_2501 == <<"1", "0", ".", "2", "5", "0", "1">>

V10_2502 == <<"1", "0", ".", "2", "5", "0", "2">>

VX == <<"x">>

Entries ==
    { Entry(<<>>, <<V0, V0, V0, V0>>, US, EXR, <<0, 0, 0, 0>>),
      Entry(<<"d", "/">>, <<V0, V0, V0, V0>>, US, EXR, <<0, 0, 0, 0>>),
      Entry(<<>>, <<V45, V255, V0, V0>>, US, EXR, <<45000, 255000, 0, 0>>),
      Entry(<<>>, <<V10_2501, V0, V0, V0>>, US, EXR, <<10250, 0, 0, 0>>),
      Entry(<<>>, <<V10_2502, V0, V0, V0>>, US, EXR, <<10250, 0, 0, 0>>),
      Entry(<<>>, <<VX, V0, V0, V0>>, US, EXR, <<>>),
      Entry(<<>>, <<V0, V0>>, US, EXR, <<>>),
      Entry(<<>>, <<V0, V0, V0, V10_5>>, US, JPEG, <<0, 0, 0, 10500>>),
      Entry(<<>>, <<V0, V0, V0, V10>>, US, JPEG, <<0, 0, 0, 10000>>),
      Entry(<<>>, <<V0, V0, V0, V10_5>>, US, JPG, <<0, 0, 0, 10500>>),
      Entry(<<>>, <<V45, V255, V0, V0>>, SP, EXR, <<45000, 255000, 0, 0>>),
      [name |-> <<"r", "e", "a", "d", "m", "e", ".", "t", "x", "t">>,
       sep |-> US, ext |-> <<".", "t", "x", "t">>, encoded |-> <<>>] }

EntryNames == {e.name : e \in Entries}

Archives == {n \in SUBSET EntryNames : Cardinality(n) <= MaxEntries}

Extensions == {EXR, JPG, JPEG}

Separators == {US, SP}

ZipPath == "Colorchecker.zip"

NpzPath == "example.btf.npz"

\* arguments of Btfzip.angles_to_image, as the Decimal each converts to
ZipTlValues ==
    { Dec(0, 0), Dec(45, 0), Dec(1025, 2), Dec(102501, 4), Dec(102502, 4),
      Dec(102504, 4), Dec(102505, 4), Dec(102506, 4), Dec(102515, 4),
      Dec(-102505, 4), Dec(999, 0) }

ZipQueries ==
    {<<tl, Dec(0, 0), Dec(0, 0), pv>> :
        tl \in ZipTlValues, pv \in {Dec(0, 0), Dec(105, 1)}}
    \cup {<<Dec(45, 0), Dec(255, 0), Dec(0, 0), Dec(0, 0)>>,
          <<Dec(999, 0), Dec(999, 0), Dec(999, 0), Dec(999, 0)>>}

\* the angle tuples a packed archive may hold, in thousandths of a degree
NpzAngles ==
    {<<tl, 0, 0, 0>> : tl \in {0, 100000, 100001, 200000, 200004}}
    \cup {<<0, 255000, 0, 0>>, <<100000, 255000, 0, 0>>}

NpzImages == {"imageA", "imageB"}

NpzQueries ==
    NpzAngles
    \cup {<<tl, 0, 0, 0>> : tl \in {199998, 200002}}
    \cup {<<0, 0, 0, 1>>, <<999000, 999000, 999000, 999000>>}

-----------------------------------------------------------------------------
(* Btfzip: parsing a filename *)

\* the exception classes an `except ValueError` clause catches:
\* decimal.InvalidOperation is an ArithmeticError and IndexError a
\* LookupError, so neither is one of them
IsValueError(e) == e = "ValueError"

\* Decimal(...).quantize(self.DECIMAL_PRECISION) of one field
QuantizedField(d) ==
    IF d.ok
    THEN [err |-> "none", val |-> Quantize(d)]
    ELSE [err |-> "InvalidOperation", val |-> 0]

\* Decimal(angles[i][2:]).quantize(self.DECIMAL_PRECISION), i counted from 1
FieldToAngle(angles, i) ==
    IF Len(angles) < i
    THEN [err |-> "IndexError", val |-> 0]
    ELSE QuantizedField(DecimalFromStr(DropFirst2(angles[i])))

\* the try block of lines 90-97 over the four fields r: the tuple
\* (tl, pl, tv, pv), or the exception of the first field that fails, turned
\* into ValueError("invalid angle:", angles) when it is a ValueError
TryAngles(r) ==
    IF \A i \in 1..4 : r[i].err = "none"
    THEN [err |-> "none", angles |-> <<r[1].val, r[2].val, r[3].val, r[4].val>>]
    ELSE [err |-> IF \E i \in 1..4 :
                        /\ IsValueError(r[i].err)
                        /\ \A j \in 1..(i - 1) : r[j].err = "none"
                  THEN "ValueError: invalid angle"
                  ELSE r[CHOOSE i \in 1..4 :
                             /\ r[i].err # "none"
                             /\ \A j \in 1..(i - 1) : r[j].err = "none"].err,
          angles |-> <<>>]

\* Btfzip._filename_to_angles(filename, sep)
FilenameToAngles(filename, sep) ==
    TryAngles([i \in 1..4 |->
                  FieldToAngle(Split(DropLast4(BaseName(filename)), sep), i)])

-----------------------------------------------------------------------------
(* Btfzip.__init__ *)

EmptyDict == [k \in {} |-> <<>>]

\* {path for path in self.__z.namelist() if path.endswith(file_ext)}
FilepathSet(names, ext) == {path \in names : EndsWith(path, ext)}

\* lines 69-78: the duplicate report.  The list comprehension calls
\* self._filename_to_angles(path) without `sep`, a TypeError on the first
\* path; with no path at all the Counter is empty, nothing is printed and the
\* RuntimeError is raised.
DuplicateReport(filepath_set) ==
    IF filepath_set # {}
    THEN [err |-> "TypeError", lines |-> {}]
    ELSE [err |-> "RuntimeError", lines |-> {}]

\* lines 80-83: the decode strategy
SelectDecoder(ext) ==
    IF ext = <<".", "j", "p", "g">> \/ ext = <<".", "j", "p", "e", "g">>
    THEN "simplejpeg"
    ELSE "cv2"

\* self._filename_to_angles(path, angle_sep) for every entry name and
\* separator the archives above use, evaluated once
FilenameAngles ==
    [sep \in Separators |-> [p \in EntryNames |-> FilenameToAngles(p, sep)]]

\* the filtered paths whose name does not parse
FailingPaths(names, ext, sep) ==
    {p \in FilepathSet(names, ext) : FilenameAngles[sep][p].err # "none"}

\* the keys of the dict comprehension of lines 62-64
DictKeys(names, ext, sep) ==
    {FilenameAngles[sep][p].angles : p \in FilepathSet(names, ext)}

\* the dicts that comprehension can build: a later path of the set's
\* iteration order with the same angles overwrites an earlier one
AnglesVsFilepathDicts(names, ext, sep) ==
    {d \in [DictKeys(names, ext, sep) -> FilepathSet(names, ext)] :
        \A k \in DOMAIN d : FilenameAngles[sep][d[k]].angles = k}

\* Btfzip.__init__ over a zip holding `names`: every way the constructor can
\* end, as the attributes it has set and the exception it raised
BtfzipInit(names, ext, sep) ==
    IF FailingPaths(names, ext, sep) # {}
    THEN \* the dict comprehension raises at the first failing path of the
         \* set's iteration order, which may be any of them
         {[error |-> FilenameAngles[sep][p].err, status |-> "failed",
           dict |-> EmptyDict, angles_set |-> {},
           angles_to_image |-> "unbound", stderr |-> {}] :
             p \in FailingPaths(names, ext, sep)}
    ELSE IF Cardinality(FilepathSet(names, ext))
              # Cardinality(DictKeys(names, ext, sep))
    THEN {[error |-> DuplicateReport(FilepathSet(names, ext)).err,
           status |-> "failed",
           dict |-> d, angles_set |-> DictKeys(names, ext, sep),
           angles_to_image |-> "unbound",
           stderr |-> DuplicateReport(FilepathSet(names, ext)).lines] :
             d \in AnglesVsFilepathDicts(names, ext, sep)}
    ELSE {[error |-> "none", status |-> "ready",
           dict |-> d, angles_set |-> DictKeys(names, ext, sep),
           angles_to_image |-> SelectDecoder(ext), stderr |-> {}] :
             d \in AnglesVsFilepathDicts(names, ext, sep)}

-----------------------------------------------------------------------------
(* Btfzip.angles_to_image *)

\* dict.get(key): None when the key is absent
DictGet(dict, key) ==
    IF key \in DOMAIN dict
    THEN [none |-> FALSE, value |-> dict[key]]
    ELSE [none |-> TRUE, value |-> <<>>]

\* `not filepath`: None and the empty string are both falsy
NotFilepath(filepath) == filepath.none \/ filepath.value = <<>>

NotFound(key, path) ==
    [kind |-> "ValueError", key |-> key, path |-> path,
     entry |-> <<>>, decoder |-> "none", image |-> "none"]

\* the pl and tv arguments taken in the wrong order
QuantizedKey_Swapped(q) ==
    <<Quantize(q[1]), Quantize(q[3]), Quantize(q[2]), Quantize(q[4])>>

\* the key of lines 106-111 and 131-136
QuantizedKey(q) ==
    <<Quantize(q[1]), Quantize(q[2]), Quantize(q[3]), Quantize(q[4])>>

\* lines 112-122 and 137-144: raise when the key has no path, else open the
\* entry and decode its bytes
OpenAndDecode(key, filepath, path, decoder) ==
    IF NotFilepath(filepath)
    THEN NotFound(key, path)
    ELSE [kind |-> "image", key |-> key, path |-> path,
          entry |-> filepath.value, decoder |-> decoder, image |-> "none"]

\* Btfzip._angles_to_image_cv2(tl, pl, tv, pv)
AnglesToImageCv2(q, dict, path) ==
    OpenAndDecode(QuantizedKey(q), DictGet(dict, QuantizedKey(q)), path,
                  "cv2.imdecode")

\* Btfzip._angles_to_image_simplejpeg(tl, pl, tv, pv)
AnglesToImageSimplejpeg(q, dict, path) ==
    OpenAndDecode(QuantizedKey(q), DictGet(dict, QuantizedKey(q)), path,
                  "decode_jpeg")

\* self.angles_to_image(tl, pl, tv, pv) of a constructed Btfzip
AnglesToImageZip(q) ==
    IF angles_to_image = "simplejpeg"
    THEN AnglesToImageSimplejpeg(q, angles_vs_filepath_dict, archive_path)
    ELSE AnglesToImageCv2(q, angles_vs_filepath_dict, archive_path)

-----------------------------------------------------------------------------
(* Btfnpz *)

\* angles are held in thousandths of a degree
UnitsPerDegree == 1000

\* numpy.allclose defaults: rtol = 1e-5 and atol = 1e-8, as 1/rtol and 1/atol
RTolInv == 100000

ATolInv == 100000000

\* np.allclose(a, b): |a - b| <= atol + rtol * |b| in every component, b
\* being the query.  In thousandths: |A - B| * RTolInv <= 1 + |B|, written
\* with a floor division, which is the same for whole numbers
AllClose(a, b) ==
    \A i \in 1..4 :
        Abs(a[i] - b[i]) <= ((RTolInv * UnitsPerDegree) \div ATolInv + Abs(b[i])) \div RTolInv

\* frozenset({tuple(angles) for angles in self.angles_list})
AnglesSetOf(al) == {al[i] : i \in 1..Len(al)}

\* the loop falling back to the first image where it should raise
RECURSIVE ScanFrom_Default(_, _, _, _, _)
ScanFrom_Default(i, q, al, il, path) ==
    IF i > Len(al)
    THEN [kind |-> "image", key |-> q, path |-> path,
          entry |-> <<>>, decoder |-> "none", image |-> "zeros"]
    ELSE IF AllClose(al[i], q)
    THEN [kind |-> "image", key |-> q, path |-> path,
          entry |-> <<>>, decoder |-> "none", image |-> il[i]]
    ELSE ScanFrom_Default(i + 1, q, al, il, path)

\* the for loop of Btfnpz.angles_to_image from row i on: the first row that
\* is allclose to the query returns its image; the end of the list raises
RECURSIVE ScanFrom(_, _, _, _, _)
ScanFrom(i, q, al, il, path) ==
    IF i > Len(al)
    THEN [kind |-> "ValueError", key |-> q, path |-> path,
          entry |-> <<>>, decoder |-> "none", image |-> "none"]
    ELSE IF AllClose(al[i], q)
    THEN [kind |-> "image", key |-> q, path |-> path,
          entry |-> <<>>, decoder |-> "none", image |-> il[i]]
    ELSE ScanFrom(i + 1, q, al, il, path)

\* Btfnpz.angles_to_image(tl, pl, tv, pv)
AnglesToImageNpz(q) == ScanFrom(1, q, angles_list, image_list, archive_path)

-----------------------------------------------------------------------------
(* The state machine *)

NoResult ==
    [kind |-> "none", key |-> <<>>, path |-> "", entry |-> <<>>,
     decoder |-> "none", image |-> "none"]

Init ==
    /\ reader = "none"
    /\ status = "new"
    /\ error = "none"
    /\ archive_path = ""
    /\ namelist = {}
    /\ file_ext = <<>>
    /\ angle_sep = ""
    /\ angles_vs_filepath_dict = EmptyDict
    /\ angles_set = {}
    /\ angles_to_image = "unbound"
    /\ stderr = {}
    /\ angles_list = <<>>
    /\ image_list = <<>>
    /\ last_query = <<>>
    /\ last_result = NoResult
    /\ calls = 0

\* btf = Btfzip(zip_filepath, file_ext, angle_sep)
NewBtfzip ==
    /\ reader = "none"
    /\ \E names \in Archives, ext \in Extensions, sep \in Separators :
         \E init \in BtfzipInit(names, ext, sep) :
           /\ namelist' = names
           /\ file_ext' = ext
           /\ angle_sep' = sep
           /\ angles_vs_filepath_dict' = init.dict
           /\ angles_set' = init.angles_set
           /\ angles_to_image' = init.angles_to_image
           /\ stderr' = init.stderr
           /\ error' = init.error
           /\ status' = init.status
    /\ reader' = "Btfzip"
    /\ archive_path' = ZipPath
    /\ UNCHANGED <<angles_list, image_list, last_query, last_result, calls>>

\* btf = Btfnpz(npz_filepath) over an archive holding the angle table al and
\* the image stack il
NewBtfnpz ==
    /\ reader = "none"
    /\ \E n \in 0..MaxRows :
         \E al \in [1..n -> NpzAngles], il \in [1..n -> NpzImages] :
           /\ image_list' = il
           /\ angles_list' = al
           /\ angles_set' = AnglesSetOf(al)
    /\ reader' = "Btfnpz"
    /\ archive_path' = NpzPath
    /\ angles_to_image' = "npz"
    /\ status' = "ready"
    /\ error' = "none"
    /\ UNCHANGED <<namelist, file_ext, angle_sep, angles_vs_filepath_dict,
                   stderr, last_query, last_result, calls>>

\* a lookup that pops the entry it returns from the mapping
LookupBtfzip_Evicting ==
    /\ reader = "Btfzip"
    /\ status = "ready"
    /\ calls < MaxCalls
    /\ \E q \in ZipQueries :
           /\ last_query' = q
           /\ last_result' = AnglesToImageZip(q)
           /\ angles_vs_filepath_dict' =
                  [k \in DOMAIN angles_vs_filepath_dict \ {QuantizedKey(q)} |->
                      angles_vs_filepath_dict[k]]
    /\ calls' = calls + 1
    /\ UNCHANGED <<reader, status, error, archive_path, namelist, file_ext,
                   angle_sep, angles_set, angles_to_image, stderr,
                   angles_list, image_list>>

\* btf.angles_to_image(*q) on a constructed Btfzip, q a free query or a
\* tuple taken from btf.angles_set
LookupBtfzip ==
    /\ reader = "Btfzip"
    /\ status = "ready"
    /\ calls < MaxCalls
    /\ \E q \in ZipQueries \cup
                {<<DecimalOfKey(t[1]), DecimalOfKey(t[2]),
                   DecimalOfKey(t[3]), DecimalOfKey(t[4])>> : t \in angles_set} :
           /\ last_query' = q
           /\ last_result' = AnglesToImageZip(q)
    /\ calls' = calls + 1
    /\ UNCHANGED <<reader, status, error, archive_path, namelist, file_ext,
                   angle_sep, angles_vs_filepath_dict, angles_set,
                   angles_to_image, stderr, angles_list, image_list>>

\* btf.angles_to_image(*q) on a constructed Btfnpz
LookupBtfnpz ==
    /\ reader = "Btfnpz"
    /\ status = "ready"
    /\ calls < MaxCalls
    /\ \E q \in NpzQueries :
           /\ last_query' = q
           /\ last_result' = AnglesToImageNpz(q)
    /\ calls' = calls + 1
    /\ UNCHANGED <<reader, status, error, archive_path, namelist, file_ext,
                   angle_sep, angles_vs_filepath_dict, angles_set,
                   angles_to_image, stderr, angles_list, image_list>>

Next == NewBtfzip \/ NewBtfnpz \/ LookupBtfzip \/ LookupBtfnpz

Spec == Init /\ [][Next]_vars

-----------------------------------------------------------------------------
(* Vocabulary of the properties *)

\* a Btfzip whose constructor returned
ZipReady == reader = "Btfzip" /\ status = "ready"

\* a Btfnpz whose constructor returned
NpzReady == reader = "Btfnpz" /\ status = "ready"

\* the entries of the zip that pass the extension filter
Filtered == FilepathSet(namelist, file_ext)

\* the archive entry with a given name
EntryOf(name) == CHOOSE e \in Entries : e.name = name

\* the name follows the naming scheme with the separator the reader was given
WellFormed(name) ==
    EntryOf(name).encoded # <<>> /\ EntryOf(name).sep = angle_sep

\* the number of filtered entries whose name encodes the tuple t
Occurrences(t) ==
    Cardinality({p \in Filtered : WellFormed(p) /\ EntryOf(p).encoded = t})

\* the constructor got as far as the duplicate check and found duplicates
DuplicatesDetected ==
    /\ reader = "Btfzip"
    /\ \A p \in Filtered : FilenameToAngles(p, angle_sep).err = "none"
    /\ Cardinality(Filtered)
         # Cardinality({FilenameToAngles(p, angle_sep).angles : p \in Filtered})

\* the arguments that pass the stored tuple t back to angles_to_image
StoredQuery(t) ==
    <<DecimalOfKey(t[1]), DecimalOfKey(t[2]), DecimalOfKey(t[3]), DecimalOfKey(t[4])>>

-----------------------------------------------------------------------------
(* Btfzip construction *)

\* C1: a Btfzip over a zip in which two filtered entries quantize to the
\* same angle tuple fails with the duplicate-condition RuntimeError, for
\* every separator and extension, and binds no angles_to_image.
C1_DuplicatesRaiseRuntimeError ==
    (/\ reader = "Btfzip"
     /\ \E p1, p2 \in Filtered :
            /\ p1 # p2
            /\ FilenameToAngles(p1, angle_sep).err = "none"
            /\ FilenameToAngles(p1, angle_sep) = FilenameToAngles(p2, angle_sep))
    => (status = "failed" /\ error = "RuntimeError" /\ angles_to_image = "unbound")

\* C6: when a filtered entry has a name whose angle fields do not parse
\* (non-numeric text after the tag, or fewer than four fields under the
\* reader's separator), construction fails with ValueError("invalid angle:").
C6_MalformedNameRaisesInvalidAngle ==
    (/\ reader = "Btfzip"
     /\ \E p \in Filtered : ~WellFormed(p))
    => (status = "failed" /\ error = "ValueError: invalid angle")

\* C7: a construction that detects duplicates has written, before it fails,
\* one line to stderr for every angle tuple that occurs more than once and
\* none for a tuple that occurs once.
C7_DuplicateDiagnosticsPrinted ==
    DuplicatesDetected
    => /\ status = "failed"
       /\ \A p \in Filtered :
              (Occurrences(EntryOf(p).encoded) > 1)
              <=> (\E line \in stderr : line.angles = EntryOf(p).encoded)

\* C9: for every accepted extension, ".jpeg" included, the tuple parsed from
\* a well-formed entry is the four values its base name encodes, directory
\* and whole extension stripped (pv10.5 is 10.500 under ".jpeg" too).
C9_ParsedAnglesAreEncodedAngles ==
    reader = "Btfzip"
    => \A p \in Filtered :
           WellFormed(p)
           => FilenameToAngles(p, angle_sep)
                = [err |-> "none", angles |-> EntryOf(p).encoded]

-----------------------------------------------------------------------------
(* Lookups *)

\* no stored entry matches the query: the quantized key is not in the
\* mapping (Btfzip), no row of the angle list is allclose to it (Btfnpz)
NoStoredMatch(q) ==
    IF reader = "Btfzip"
    THEN QuantizedKey(q) \notin DOMAIN angles_vs_filepath_dict
    ELSE \A i \in 1..Len(angles_list) : ~AllClose(angles_list[i], q)

\* the values the not-found error of either reader reports
QueriedValues(q) == IF reader = "Btfzip" THEN QuantizedKey(q) ELSE q

C3_StoredTupleOpensItsEntry ==
    ZipReady
    => /\ angles_set = {EntryOf(p).encoded : p \in Filtered}
       /\ \A t \in angles_set :
              /\ QuantizedKey(StoredQuery(t)) = t
              /\ AnglesToImageZip(StoredQuery(t)).kind = "image"
              /\ AnglesToImageZip(StoredQuery(t)).entry \in Filtered
              /\ \A p \in Filtered :
                     (EntryOf(p).encoded = t)
                     <=> (p = AnglesToImageZip(StoredQuery(t)).entry)
       /\ (last_result.kind = "image"
           => EntryOf(last_result.entry).encoded = QuantizedKey(last_query))

\* a Btfzip with two entries was asked for (45, 255, 0, 0), a tuple of its
\* angles_set, in the form angles_set holds it
C3_Witness ==
    /\ ZipReady
    /\ Cardinality(angles_set) = 2
    /\ <<45000, 255000, 0, 0>> \in angles_set
    /\ last_query = StoredQuery(<<45000, 255000, 0, 0>>)
    /\ last_result.kind = "image"
    /\ EntryOf(last_result.entry).encoded = <<45000, 255000, 0, 0>>

\* d with the digits after its third decimal place cut off, in thousandths
Truncated(d) ==
    IF d.exp <= DECIMAL_PRECISION
    THEN d.coef * Pow10(DECIMAL_PRECISION - d.exp)
    ELSE IF d.coef < 0
    THEN -((-d.coef) \div Pow10(d.exp - DECIMAL_PRECISION))
    ELSE d.coef \div Pow10(d.exp - DECIMAL_PRECISION)

\* twice the part of |d| after its third decimal place, and the quantum, in
\* units of the last digit of d
TwiceTail(d) ==
    IF d.exp <= DECIMAL_PRECISION THEN 0
    ELSE 2 * (Abs(d.coef) % Pow10(d.exp - DECIMAL_PRECISION))

Quantum(d) ==
    IF d.exp <= DECIMAL_PRECISION THEN 1 ELSE Pow10(d.exp - DECIMAL_PRECISION)

\* q1 and q2 differ at most in digits after the third decimal place
DifferBeyondThirdDecimal(q1, q2) ==
    \A i \in 1..4 :
        /\ Truncated(q1[i]) = Truncated(q2[i])
        /\ (q1[i].coef < 0) = (q2[i].coef < 0)

\* in every field the cut-off digits of q1 and q2 are both below, or both
\* above, half of the third decimal place
SameSideOfHalf(q1, q2) ==
    \A i \in 1..4 :
        \/ TwiceTail(q1[i]) < Quantum(q1[i]) /\ TwiceTail(q2[i]) < Quantum(q2[i])
        \/ TwiceTail(q1[i]) > Quantum(q1[i]) /\ TwiceTail(q2[i]) > Quantum(q2[i])

\* q resolves as the latest lookup did: same key, same entry or not-found
SameOutcomeAsLast(q) ==
    /\ QuantizedKey(q) = last_result.key
    /\ AnglesToImageZip(q).kind = last_result.kind
    /\ AnglesToImageZip(q).entry = last_result.entry

\* C5 as stated: two Btfzip lookup inputs that differ only in digits beyond
\* the third decimal place get the same key, so both open the same entry or
\* both raise not-found.
C5_DigitsBeyondThirdIgnored ==
    (ZipReady /\ last_result.kind # "none")
    => \A q \in ZipQueries :
           DifferBeyondThirdDecimal(last_query, q) => SameOutcomeAsLast(q)

\* C5 as amended: the same, for inputs whose digits beyond the third decimal
\* place lie on the same side of half a thousandth (quantize rounds half to
\* even; it does not truncate).
C5_SameRoundingSameEntry ==
    (ZipReady /\ last_result.kind # "none")
    => \A q \in ZipQueries :
           (DifferBeyondThirdDecimal(last_query, q) /\ SameSideOfHalf(last_query, q))
           => SameOutcomeAsLast(q)

\* the entry tl10.2501 was opened by a lookup of 10.2502
C5_Witness ==
    /\ ZipReady
    /\ last_query = <<Dec(102502, 4), Dec(0, 0), Dec(0, 0), Dec(0, 0)>>
    /\ last_result.kind = "image"
    /\ last_result.entry = Entry(<<>>, <<V10_2501, V0, V0, V0>>, US, EXR, <<>>).name
    /\ DifferBeyondThirdDecimal(
           last_query, <<Dec(102501, 4), Dec(0, 0), Dec(0, 0), Dec(0, 0)>>)

\* C4: for every stored tuple s of a Btfnpz and every query q within the
\* comparison tolerance of s, the lookup of q returns the image that the
\* lookup of exactly s returns.
C4_TolerantQuerySameImage ==
    (NpzReady /\ last_result.kind # "none")
    => \A i \in 1..Len(angles_list) :
           AllClose(angles_list[i], last_query)
           => /\ last_result.kind = "image"
              /\ last_result.image = AnglesToImageNpz(angles_list[i]).image

\* C8: in a Btfnpz whose stored tuples are pairwise distinct, the lookup of
\* exactly the i-th stored tuple returns the i-th image: the scan stops at no
\* earlier row.
C8_StoredTupleReturnsItsImage ==
    (/\ NpzReady
     /\ last_result.kind # "none"
     /\ \A i, j \in 1..Len(angles_list) : i # j => angles_list[i] # angles_list[j])
    => \A i \in 1..Len(angles_list) :
           last_query = angles_list[i]
           => /\ last_result.kind = "image"
              /\ last_result.image = image_list[i]

\* what a constructed reader holds
ReaderState ==
    <<reader, status, archive_path, namelist, file_ext, angle_sep,
      angles_vs_filepath_dict, angles_set, angles_to_image, angles_list,
      image_list>>

\* what the latest query yields on the reader as it stands
OutcomeNow ==
    IF reader = "Btfzip"
    THEN AnglesToImageZip(last_query)
    ELSE AnglesToImageNpz(last_query)

\* C10: a lookup on a constructed reader of either type, returning or
\* raising not-found, leaves angles_set, the angle list or mapping, the
\* archive path and the decode strategy as construction left them, and at
\* every point of a sequence of lookups the latest query still yields the
\* outcome it was given.
C10_LookupLeavesReaderUnchanged ==
    /\ [][status = "ready" => ReaderState' = ReaderState]_vars
    /\ []((status = "ready" /\ last_result.kind # "none")
             => last_result = OutcomeNow)

\* a Btfzip returned an image as the second lookup of a sequence
C10_Witness ==
    /\ ZipReady
    /\ calls >= 2
    /\ last_result.kind = "image"

=============================================================================
